---- MODULE Spec2Model ----
(***************************************************************************)
(* uX: integer types of non-standard width (src/src/lib.rs).               *)
(*                                                                         *)
(* The model covers the family backed by an 8-bit native integer: u2..u7   *)
(* (define_unsigned!, lines 296-301) and i2..i7 (define_signed!, lines     *)
(* 364-369).  A stored value is the native integer held in the tuple       *)
(* field: 0..255 for the u8 backed types, -128..127 for the i8 backed      *)
(* ones.  Bitwise operations of the code are computed on the two's         *)
(* complement bit pattern of that integer.                                 *)
(***************************************************************************)
EXTENDS Integers, Sequences, FiniteSets, TLC

\* Width of the backing native type u8 / i8.
N == 8
\* Smallest and largest declared width with an 8-bit backing type.
MinBits == 2
MaxBits == 7
\* Largest shift amount the model hands to a shift operator.  Amounts at or
\* above N overflow the native shift.
MaxShift == 8

Pow2(n) == 2 ^ n

\* One instantiation of the macros: $bits and the signedness of $type.
Types == [bits : MinBits..MaxBits, signed : BOOLEAN]

\* Every value of the backing type $type.
Native(signed) == IF signed THEN (0 - Pow2(N - 1))..(Pow2(N - 1) - 1)
                            ELSE 0..(Pow2(N) - 1)

\* The two's complement bit pattern of a native value, as a natural number.
Bits(v) == v % Pow2(N)

\* The native value of a bit pattern (the inverse of Bits).
FromBits(signed, u) == IF signed /\ u >= Pow2(N - 1) THEN u - Pow2(N) ELSE u

\* Bitwise and, or and complement of N-bit patterns.
RECURSIVE NativeAnd(_, _)
NativeAnd(a, b) ==
    IF a = 0 \/ b = 0 THEN 0
    ELSE (a % 2) * (b % 2) + 2 * NativeAnd(a \div 2, b \div 2)

RECURSIVE NativeOr(_, _)
NativeOr(a, b) ==
    IF a = 0 THEN b
    ELSE IF b = 0 THEN a
    ELSE (IF a % 2 = 1 \/ b % 2 = 1 THEN 1 ELSE 0) + 2 * NativeOr(a \div 2, b \div 2)

NativeNot(a) == Pow2(N) - 1 - a

(***************************************************************************)
(* Native operations of the backing type.                                  *)
(***************************************************************************)

\* $type::wrapping_add and $type::wrapping_sub.
native_wrapping_add(signed, a, b) == FromBits(signed, (Bits(a) + Bits(b)) % Pow2(N))

native_wrapping_sub(signed, a, b) == FromBits(signed, (Bits(a) - Bits(b)) % Pow2(N))

\* $type << k for 0 <= k < N: bits shifted past position N-1 are dropped.
native_shl(signed, v, k) == FromBits(signed, (Bits(v) * Pow2(k)) % Pow2(N))

\* $type >> k for 0 <= k < N: logical for u8, sign-propagating for i8.
native_shr(signed, v, k) ==
    LET u    == Bits(v)
        fill == IF signed /\ u >= Pow2(N - 1) THEN Pow2(N) - Pow2(N - k) ELSE 0
    IN  FromBits(signed, (u \div Pow2(k)) + fill)

\* $type | $type.
native_bitor(signed, a, b) == FromBits(signed, NativeOr(Bits(a), Bits(b)))

\* The amount a native shift uses when overflow checks are off: the shift
\* amount is taken modulo the width of the type.
ShiftOverflows(k) == k < 0 \/ k >= N

WrappedAmount(k) == k % N

(***************************************************************************)
(* define_unsigned! / define_signed!                                       *)
(***************************************************************************)

\* ((1 as $type) << $bits).overflowing_sub(1).0
LowMask(t) == (Bits(native_shl(t.signed, 1, t.bits)) - 1) % Pow2(N)

MAX(t) == IF t.signed THEN native_shl(TRUE, 1, t.bits - 1) - 1
                      ELSE native_shl(FALSE, 1, t.bits) - 1

MIN(t) == IF t.signed THEN 0 - native_shl(TRUE, 1, t.bits - 1) ELSE 0

\* The body of mask, of define_unsigned! or of define_signed!.
mask_body(t, v) ==
    IF ~t.signed
    THEN FromBits(FALSE, NativeAnd(Bits(v), LowMask(t)))
    ELSE IF NativeAnd(Bits(v), Pow2(t.bits - 1)) = 0
         THEN FromBits(TRUE, NativeAnd(Bits(v), LowMask(t)))
         ELSE FromBits(TRUE, NativeOr(Bits(v), NativeNot(LowMask(t))))

\* The types in a fixed order: u2, i2, u3, i3, ..., u7, i7.
TypeIndex(t) == 2 * (t.bits - MinBits) + (IF t.signed THEN 2 ELSE 1)

TypeAt(i) == [bits |-> MinBits + ((i - 1) \div 2), signed |-> (i % 2 = 0)]

TypeCount == 2 * (MaxBits - MinBits + 1)

\* mask_body of every pattern of every type, computed once: entry u + 1 of a
\* type's row is mask_body of the native value with bit pattern u.
RECURSIVE MaskRow(_, _, _)
MaskRow(t, lo, hi) ==
    IF lo = hi THEN <<mask_body(t, FromBits(t.signed, lo))>>
    ELSE LET mid == (lo + hi) \div 2
         IN  MaskRow(t, lo, mid) \o MaskRow(t, mid + 1, hi)

RECURSIVE MaskRows(_)
MaskRows(i) ==
    IF i = 0 THEN <<>>
    ELSE Append(MaskRows(i - 1), MaskRow(TypeAt(i), 0, Pow2(N) - 1))

MaskTable == MaskRows(TypeCount)

\* mask with the sign extension forgotten: the unsigned body used for a
\* signed type as well.
mask_no_sign_extend(t, v) == FromBits(t.signed, NativeAnd(Bits(v), LowMask(t)))

\* mask: the tabulated value of mask_body.
mask(t, v) == MaskTable[TypeIndex(t)][Bits(v) + 1]

\* The numeric value a stored pattern stands for: its low $bits bits, read as
\* an unsigned number or as a two's complement number of that width.
Value(t, v) ==
    LET lo == Bits(v) % Pow2(t.bits)
    IN  IF t.signed /\ lo >= Pow2(t.bits - 1) THEN lo - Pow2(t.bits) ELSE lo

\* The representable value congruent to n modulo 2^$bits.
WrapValue(t, n) ==
    LET lo == n % Pow2(t.bits)
    IN  IF t.signed /\ lo >= Pow2(t.bits - 1) THEN lo - Pow2(t.bits) ELSE lo

\* Bit i of a stored native value.
Bit(v, i) == (Bits(v) \div Pow2(i)) % 2

\* Canonical form: the bits above position $bits - 1 are zero (unsigned) or
\* copies of bit $bits - 1 (signed).
Canonical(t, v) ==
    \A i \in t.bits..(N - 1) : Bit(v, i) = (IF t.signed THEN Bit(v, t.bits - 1) ELSE 0)

(***************************************************************************)
(* implement_common!                                                       *)
(***************************************************************************)

min_value(t) == MIN(t)

max_value(t) == MAX(t)

\* The assertion of new with the upper bound excluded.
new_assert_strict(t, value) == value < MAX(t) /\ value >= MIN(t)

\* The assertion of new: assert!(value <= MAX.0 && value >= MIN.0).
new_assert(t, value) == value <= MAX(t) /\ value >= MIN(t)

\* The value new stores when its assertion holds.
new(t, value) == value

wrapping_sub(t, a, b) == mask(t, native_wrapping_sub(t.signed, a, b))

\* wrapping_add without the final mask: the native wrap-around alone.
wrapping_add_unmasked(t, a, b) == native_wrapping_add(t.signed, a, b)

wrapping_add(t, a, b) == mask(t, native_wrapping_add(t.signed, a, b))

\* eq as #[derive(PartialEq)] would write it: the stored fields compared.
eq_derived(t, a, b) == a = b

\* PartialEq::eq.
eq(t, a, b) == mask(t, a) = mask(t, b)

\* Ord::cmp; PartialOrd::partial_cmp returns Some of the same ordering.
cmp(t, a, b) ==
    IF mask(t, a) < mask(t, b) THEN "Less"
    ELSE IF mask(t, a) = mask(t, b) THEN "Equal"
    ELSE "Greater"

partial_cmp(t, a, b) == cmp(t, a, b)

\* The native value Hash::hash feeds to the hasher.
hash(t, a) == mask(t, a)

\* The native value UpperHex, LowerHex, Octal and Binary hand to the renderer
\* of the backing type: the stored value.
fmt_value(t, a) == a

UpperDigits == <<"0", "1", "2", "3", "4", "5", "6", "7",
                 "8", "9", "A", "B", "C", "D", "E", "F">>
LowerDigits == <<"0", "1", "2", "3", "4", "5", "6", "7",
                 "8", "9", "a", "b", "c", "d", "e", "f">>

\* The backing type's positional rendering of a native value: the digits of
\* its bit pattern in the given base, without leading zeros.
RECURSIVE NativeRender(_, _, _)
NativeRender(u, base, digits) ==
    IF u < base THEN <<digits[u + 1]>>
    ELSE Append(NativeRender(u \div base, base, digits), digits[(u % base) + 1])

UpperHex(t, a) == NativeRender(Bits(fmt_value(t, a)), 16, UpperDigits)

LowerHex(t, a) == NativeRender(Bits(fmt_value(t, a)), 16, LowerDigits)

Octal(t, a) == NativeRender(Bits(fmt_value(t, a)), 8, LowerDigits)

Binary(t, a) == NativeRender(Bits(fmt_value(t, a)), 2, LowerDigits)

\* shr that shifts the stored value without masking it first.
shr_unmasked(t, a, k) == native_shr(t.signed, a, WrappedAmount(k))

\* shl with the body of shr.
shl_as_shr(t, a, k) == native_shr(t.signed, mask(t, a), WrappedAmount(k))

\* Shr::shr and Shl::shl (value forms).
shr(t, a, k) == native_shr(t.signed, mask(t, a), WrappedAmount(k))

shl(t, a, k) == native_shl(t.signed, mask(t, a), WrappedAmount(k))

\* shr_assign and shl_assign without "*self = self.mask()".
shr_assign_unmasked(t, a, k) == native_shr(t.signed, a, WrappedAmount(k))

shl_assign_unmasked(t, a, k) == native_shl(t.signed, a, WrappedAmount(k))

\* ShrAssign::shr_assign and ShlAssign::shl_assign: the value left in *self.
shr_assign(t, a, k) ==
    LET self == mask(t, a)
    IN  native_shr(t.signed, self, WrappedAmount(k))

shl_assign(t, a, k) ==
    LET self == mask(t, a)
    IN  native_shl(t.signed, self, WrappedAmount(k))

\* BitOr::bitor (the four ownership variants have the same body).
bitor(t, a, b) == native_bitor(t.signed, mask(t, a), mask(t, b))

\* BitOrAssign::bitor_assign: the value left in *self.
bitor_assign(t, a, b) ==
    LET self == mask(t, a)
    IN  native_bitor(t.signed, self, mask(t, b))

(***************************************************************************)
(* The values a program can hold                                           *)
(***************************************************************************)

ShiftAmounts == 0..MaxShift

\* The values new returns.
NewValues(t) == {v \in Native(t.signed) : new_assert(t, v)}

\* Every stored pattern an expression T::new(v) << k evaluates to.  Every
\* operator masks self before it works, so these are all the patterns the
\* public interface can store.
ShiftedValues(t) == {shl(t, new(t, v), k) : v \in NewValues(t), k \in 0..(N - 1)}

\* ShiftedValues of each type, computed once.
RECURSIVE ShiftedValuesUpTo(_)
ShiftedValuesUpTo(i) ==
    IF i = 0 THEN <<>>
    ELSE Append(ShiftedValuesUpTo(i - 1), ShiftedValues(TypeAt(i)))

OperandTable == ShiftedValuesUpTo(TypeCount)

Operands(t) == OperandTable[TypeIndex(t)]

\* The operands the binary steps of the program below are run with: the
\* extremes, zero, one, and two results of << that are not canonical.
OperandSample(t) ==
    {MIN(t), MAX(t), new(t, 0), new(t, 1), shl(t, MAX(t), 1), shl(t, new(t, 1), t.bits)}

(***************************************************************************)
(* The program: a variable of one of the types, built by new and then      *)
(* updated by any sequence of the public operators.  x is updated with the *)
(* assignment forms (>>=, <<=, |=), xv with the value forms and rebinding  *)
(* (xv = xv >> k, ...), both with the same operands.                       *)
(***************************************************************************)
VARIABLES
    ty,        \* the type of the variable: [bits, signed]
    x,         \* the stored native value of the variable
    xv,        \* the same variable, updated with the value forms
    m,         \* the result of the last call of mask on a raw pattern
    op,        \* the operation that ran last
    arg,       \* the native value handed to new, when new ran last (else 0)
    stale,     \* TRUE when the last operator found self not canonical
    panicked   \* TRUE once an assertion or an overflow check has failed

vars == <<ty, x, xv, m, op, arg, stale, panicked>>

\* #[derive(Default)]: the variable starts as $name(0).
Init ==
    /\ ty \in Types
    /\ x = 0
    /\ xv = 0
    /\ m = 0
    /\ op = "default"
    /\ arg = 0
    /\ stale = FALSE
    /\ panicked = FALSE

\* A panic ends the program: unwinding drops the variable, which the model
\* shows as the cleared value.
Panic(name, v) ==
    /\ panicked' = TRUE
    /\ op' = name
    /\ arg' = v
    /\ x' = 0
    /\ xv' = 0
    /\ stale' = FALSE
    /\ UNCHANGED <<ty, m>>

New(v) ==
    /\ ~panicked
    /\ IF new_assert(ty, v)
       THEN /\ x' = new(ty, v)
            /\ xv' = new(ty, v)
            /\ op' = "new"
            /\ arg' = v
            /\ stale' = FALSE
            /\ UNCHANGED <<ty, m, panicked>>
       ELSE Panic("new", v)

WrappingAdd(b) ==
    /\ ~panicked
    /\ x' = wrapping_add(ty, x, b)
    /\ xv' = wrapping_add(ty, xv, b)
    /\ op' = "wrapping_add"
    /\ arg' = 0
    /\ stale' = ~Canonical(ty, x)
    /\ UNCHANGED <<ty, m, panicked>>

WrappingSub(b) ==
    /\ ~panicked
    /\ x' = wrapping_sub(ty, x, b)
    /\ xv' = wrapping_sub(ty, xv, b)
    /\ op' = "wrapping_sub"
    /\ arg' = 0
    /\ stale' = ~Canonical(ty, x)
    /\ UNCHANGED <<ty, m, panicked>>

\* A shift amount outside 0..N-1 overflows the native shift: it panics when
\* the build checks overflow and uses the wrapped amount when it does not.
Shr(k) ==
    /\ ~panicked
    /\ \/ /\ x' = shr_assign(ty, x, k)
          /\ xv' = shr(ty, xv, k)
          /\ op' = "shr"
          /\ arg' = 0
          /\ stale' = ~Canonical(ty, x)
          /\ UNCHANGED <<ty, m, panicked>>
       \/ /\ ShiftOverflows(k)
          /\ Panic("shr", 0)

Shl(k) ==
    /\ ~panicked
    /\ \/ /\ x' = shl_assign(ty, x, k)
          /\ xv' = shl(ty, xv, k)
          /\ op' = "shl"
          /\ arg' = 0
          /\ stale' = ~Canonical(ty, x)
          /\ UNCHANGED <<ty, m, panicked>>
       \/ /\ ShiftOverflows(k)
          /\ Panic("shl", 0)

BitOr(b) ==
    /\ ~panicked
    /\ x' = bitor_assign(ty, x, b)
    /\ xv' = bitor(ty, xv, b)
    /\ op' = "bitor"
    /\ arg' = 0
    /\ stale' = ~Canonical(ty, x)
    /\ UNCHANGED <<ty, m, panicked>>

Next ==
    \/ \E v \in Native(ty.signed) : New(v)
    \/ \E b \in OperandSample(ty) : WrappingAdd(b)
    \/ \E b \in OperandSample(ty) : WrappingSub(b)
    \/ \E k \in ShiftAmounts : Shr(k)
    \/ \E k \in ShiftAmounts : Shl(k)
    \/ \E b \in OperandSample(ty) : BitOr(b)

Spec == Init /\ [][Next]_vars

(***************************************************************************)
(* The program that builds one value, let x = T::new(v) << k.  Its states  *)
(* hold every pattern the public interface can store.                      *)
(***************************************************************************)
NextBuild ==
    \/ \E v \in Native(ty.signed) : op = "default" /\ New(v)
    \/ \E k \in ShiftAmounts : op = "new" /\ Shl(k)

SpecBuild == Init /\ [][NextBuild]_vars

(***************************************************************************)
(* mask on raw patterns: inside the crate a value is built from any raw    *)
(* pattern of the backing type with the tuple constructor, $name(p), and   *)
(* mask is called on it, as test_masking does.  x holds the raw pattern    *)
(* and m what mask returned.                                               *)
(***************************************************************************)
Mask(p) ==
    /\ x' = p
    /\ xv' = p
    /\ m' = mask(ty, p)
    /\ op' = "mask"
    /\ UNCHANGED <<ty, arg, stale, panicked>>

NextRaw == \E p \in Native(ty.signed) : Mask(p)

SpecRaw == Init /\ [][NextRaw]_vars

(***************************************************************************)
(* Notions the claims are stated with.                                     *)
(***************************************************************************)

\* The least and the greatest number a type of $bits bits represents.
RangeMin(t) == IF t.signed THEN 0 - Pow2(t.bits - 1) ELSE 0

RangeMax(t) == IF t.signed THEN Pow2(t.bits - 1) - 1 ELSE Pow2(t.bits) - 1

InRange(t, v) == RangeMin(t) <= v /\ v <= RangeMax(t)

Congruent(t, r, n) == (r - n) % Pow2(t.bits) = 0

\* The ordering of two integers, as the native cmp reports it.
Ordering(a, b) == IF a < b THEN "Less" ELSE IF a = b THEN "Equal" ELSE "Greater"

\* The shift amounts that do not overflow the native shift.
InRangeShifts == {k \in ShiftAmounts : ~ShiftOverflows(k)}

U4 == [bits |-> 4, signed |-> FALSE]
U5 == [bits |-> 5, signed |-> FALSE]
I4 == [bits |-> 4, signed |-> TRUE]
I5 == [bits |-> 5, signed |-> TRUE]
I7 == [bits |-> 7, signed |-> TRUE]

(***************************************************************************)
(* Claims about mask and the comparisons, checked under SpecRaw: x is any  *)
(* raw pattern of the backing type and m is mask of it.                    *)
(***************************************************************************)

\* C9: for every raw pattern p of the backing type, mask(p) keeps the low
\* $bits bits of p and overwrites every bit at a position >= $bits with zero
\* (unsigned) or with bit $bits - 1 of p (signed); so mask(p) is canonical,
\* mask leaves a canonical value unchanged, and mask(mask(p)) = mask(p).
C9_MaskCanonicalizes ==
    op = "mask" =>
        /\ m \in Native(ty.signed)
        /\ \A i \in 0..(ty.bits - 1) : Bit(m, i) = Bit(x, i)
        /\ \A i \in ty.bits..(N - 1) :
               Bit(m, i) = (IF ty.signed THEN Bit(x, ty.bits - 1) ELSE 0)
        /\ Canonical(ty, m)
        /\ (Canonical(ty, x) => m = x)
        /\ mask(ty, m) = m

\* i4: mask of 0b00001000 is 0b11111000.
C9_Witness == op = "mask" /\ ty = I4 /\ x = 8 /\ m = 0 - 8

\* C5: for any two stored patterns x and q of one type, canonical or not,
\* x == q exactly when mask(x) and mask(q) are the same native value (the
\* patterns stand for the same number), cmp and partial_cmp give the native
\* ordering of mask(x) and mask(q) (the ordering of the two numbers), and
\* the value fed to the hasher is mask(x).  Equality is then the kernel of
\* Value and the ordering its pull-back, which makes == an equivalence, the
\* ordering a total order consistent with it, and equal values hash alike.
C5_ComparesCanonical ==
    op = "mask" =>
        /\ hash(ty, x) = m
        /\ eq(ty, x, x)
        /\ \A q \in Native(ty.signed) :
               LET mq == mask(ty, q)
                   e  == eq(ty, x, q)
                   c  == cmp(ty, x, q)
               IN  /\ e <=> (m = mq)
                   /\ e <=> (Value(ty, x) = Value(ty, q))
                   /\ c = Ordering(m, mq)
                   /\ c = Ordering(Value(ty, x), Value(ty, q))
                   /\ partial_cmp(ty, x, q) = c
                   /\ (e => hash(ty, q) = hash(ty, x))

\* u4: the pattern 0b11000110 equals 0b00000110 and orders below 0b00000111.
C5_Witness ==
    /\ op = "mask" /\ ty = U4 /\ x = 198
    /\ eq(ty, x, 6) /\ cmp(ty, x, 6) = "Equal" /\ cmp(ty, x, 7) = "Less"

(***************************************************************************)
(* Claims about the operators, checked under Spec: x is any value a        *)
(* program holds after a sequence of the public operations.                *)
(***************************************************************************)

\* C1: for all values a, b in [MIN, MAX], a.wrapping_add(b) is the value in
\* [MIN, MAX] congruent to a + b modulo 2^$bits and a.wrapping_sub(b) the one
\* congruent to a - b (an interval of 2^$bits numbers holds one such value);
\* MAX.wrapping_add(1) == MIN and MIN.wrapping_sub(1) == MAX.
C1_WrappingIsModular ==
    (~panicked /\ InRange(ty, x)) =>
        /\ \A b \in RangeMin(ty)..RangeMax(ty) :
               \A s \in {wrapping_add(ty, x, b)}, d \in {wrapping_sub(ty, x, b)} :
                   /\ InRange(ty, s) /\ Congruent(ty, s, x + b)
                   /\ InRange(ty, d) /\ Congruent(ty, d, x - b)
        /\ (x = RangeMax(ty) => eq(ty, wrapping_add(ty, x, new(ty, 1)), MIN(ty)))
        /\ (x = RangeMin(ty) => eq(ty, wrapping_sub(ty, x, new(ty, 1)), MAX(ty)))

\* i7: a wrapping_add has left MIN in x (MAX.wrapping_add(1) does), and
\* MIN.wrapping_sub(1) is MAX.
C1_Witness ==
    /\ op = "wrapping_add" /\ ~panicked /\ ty = I7 /\ x = 0 - 64
    /\ wrapping_add(ty, MAX(ty), 1) = x
    /\ wrapping_sub(ty, x, 1) = 63

\* C2: new(v) returns a value that stores exactly v when MIN <= v <= MAX,
\* with MAX = 2^$bits - 1, MIN = 0 (unsigned) and MAX = 2^($bits-1) - 1,
\* MIN = -2^($bits-1) (signed), and panics otherwise; every value new
\* returns is canonical; min_value() and max_value() return MIN and MAX.
C2_NewChecksRange ==
    /\ min_value(ty) = RangeMin(ty)
    /\ max_value(ty) = RangeMax(ty)
    /\ op = "new" =>
           /\ panicked <=> ~InRange(ty, arg)
           /\ ~panicked => (x = arg /\ Canonical(ty, x))

\* i7: new(64), one above MAX, has panicked.
C2_Witness == op = "new" /\ panicked /\ ty = I7 /\ arg = 64

\* C3 as stated: after any sequence of the public operations the stored
\* value of every result is canonical.
C3_AlwaysCanonical == ~panicked => (Canonical(ty, x) /\ Canonical(ty, xv))

\* C3 as amended: the stored result of every operation other than << and
\* <<= is canonical, whatever the padding of its operands.
C3_CanonicalExceptShl ==
    (~panicked /\ op # "shl") => (Canonical(ty, x) /\ Canonical(ty, xv))

\* u5: >>= on a variable whose stored value was not canonical has left the
\* canonical 8 (240 >>= 1: mask gives 16).
C3_Witness ==
    /\ op = "shr" /\ stale /\ ~panicked /\ ty = U5 /\ x = 8
    /\ Canonical(ty, x)

\* C4: upper and lower case hexadecimal, octal and binary rendering render
\* the canonical value: the number handed to the renderer of the backing
\* type is mask(stored), so two values that compare equal (the stored value
\* and its canonical form) render to the same digits.
C4_RendersCanonical ==
    ~panicked =>
        \A c \in {mask(ty, x)} :
            /\ fmt_value(ty, x) = c
            /\ UpperHex(ty, x) = UpperHex(ty, c)
            /\ LowerHex(ty, x) = LowerHex(ty, c)
            /\ Octal(ty, x) = Octal(ty, c)
            /\ Binary(ty, x) = Binary(ty, c)

\* C6: for every value a and every shift amount k with 0 <= k < N, a << k
\* compares equal to the representable value congruent to a * 2^k modulo
\* 2^$bits.
C6_ShlIsModular ==
    ~panicked =>
        \A k \in InRangeShifts :
            /\ eq(ty, shl(ty, x, k), WrapValue(ty, Value(ty, x) * Pow2(k)))
            /\ Congruent(ty, Value(ty, shl(ty, x, k)), Value(ty, x) * Pow2(k))

\* i5: << on the stored pattern 16 (not canonical: it stands for -16) has
\* left a value that compares equal to 0, as 16 << 1 does.
C6_Witness ==
    /\ op = "shl" /\ stale /\ ~panicked /\ ty = I5
    /\ eq(ty, x, 0) /\ x = shl(ty, 16, 1) /\ x # 0

\* C7: for every stored pattern a and every k with 0 <= k < N, a >> k stores
\* floor(v / 2^k), v the number a stands for; the stored result is
\* canonical; a negative value stays negative.
C7_ShrIsFloorDivision ==
    ~panicked =>
        \A k \in InRangeShifts :
            \A r \in {shr(ty, x, k)} :
                /\ r = Value(ty, x) \div Pow2(k)
                /\ Canonical(ty, r)
                /\ (Value(ty, x) < 0 => r < 0)

\* i7: >> has left -1 in x, and -1 >> 5 is -1.
C7_Witness ==
    /\ op = "shr" /\ ~panicked /\ ty = I7 /\ x = 0 - 1
    /\ shr(ty, x, 5) = 0 - 1

\* C8: after any sequence of >>, << and | steps the variable updated with
\* the assignment forms (x) holds the same stored bits as the one updated
\* with the value forms and rebinding (xv), and so compares equal to it.
C8_AssignFormsAgree == ~panicked => (x = xv /\ eq(ty, x, xv))

\* <<= on a variable whose stored value was not canonical, with a result
\* that is not canonical either.
C8_Witness ==
    /\ op = "shl" /\ stale /\ ~panicked
    /\ ~Canonical(ty, x) /\ x = xv

(***************************************************************************)
(* Checked under SpecBuild: x is any pattern the interface can store.      *)
(***************************************************************************)

\* C10: the operations respect equality.  For stored patterns a and b whose
\* padding may be stale and every k with 0 <= k < N, the result of
\* wrapping_add, wrapping_sub, |, >> k and << k on (a, b) compares equal to
\* the result of the same operation on the canonical forms mask(a), mask(b).
\* a == a' and b == b' mean mask(a) = mask(a') and mask(b) = mask(b'), so
\* the results for (a, b) and for (a', b') compare equal to the one result
\* for the canonical forms, and to each other.
C10_OperationsRespectEq ==
    ~panicked =>
        \A c \in {mask(ty, x)} :
            /\ eq(ty, x, c)
            /\ \A k \in InRangeShifts :
                   /\ eq(ty, shr(ty, x, k), shr(ty, c, k))
                   /\ eq(ty, shl(ty, x, k), shl(ty, c, k))
            /\ \A b \in Operands(ty) :
                   \A cb \in {mask(ty, b)} :
                       /\ eq(ty, b, cb)
                       /\ eq(ty, wrapping_add(ty, x, b), wrapping_add(ty, c, cb))
                       /\ eq(ty, wrapping_sub(ty, x, b), wrapping_sub(ty, c, cb))
                       /\ eq(ty, bitor(ty, x, b), bitor(ty, c, cb))

\* u5: x is the stored 240 of MAX << 4, which compares equal to 16; 48 is
\* the stored 3 << 4, which compares equal to 16 as well.
C10_Witness ==
    /\ op = "shl" /\ ~panicked /\ ty = U5 /\ x = 240
    /\ 48 \in Operands(ty)
    /\ eq(ty, x, 16) /\ eq(ty, 48, 16) /\ x # 48
    /\ eq(ty, wrapping_add(ty, x, 48), wrapping_add(ty, 16, 16))
====
